---- MODULE Spec2Model ----
(***************************************************************************)
(* A model of the raw-socket HTTP/1.1 client of Main.go: the connection    *)
(* pool (getConn / releaseConn), the request/response engine (makeRequest),*)
(* the redirect loop (fetchWithRedirects) and the URL resolver             *)
(* (resolveURL), run by concurrent callers (goroutines) of one process     *)
(* against a nondeterministic peer.                                        *)
(***************************************************************************)
EXTENDS Integers, Sequences, FiniteSets, TLC

\* ------------------------------------------------------------------------
\* Bounds of the model
\* ------------------------------------------------------------------------
NCallers == 2            \* concurrent callers of fetchWithRedirects
MaxRedirectsBound == 2   \* maxRedirects is drawn from 0..MaxRedirectsBound
MaxExchanges == 3        \* engine calls the callers may make in a behaviour
MaxConns == 3            \* connections dialled in a behaviour

Callers == 1 .. NCallers
ConnIds == 1 .. MaxConns

\* ------------------------------------------------------------------------
\* URLs.  A URL string is modelled by its components; path is the list of
\* segments after splitting on "/" ("/" is <<"">>, "/b" is <<"b">>, "/b/" is
\* <<"b","">>, no path at all is <<>>).  kind tells the shape of the string:
\* "abs" scheme://host/path, "rel" a relative-path reference, "bad" a string url.Parse rejects, "empty" "".
\* ------------------------------------------------------------------------
URL(s, h, p) == [kind |-> "abs", scheme |-> s, host |-> h, path |-> p]
RelRef(p) == [kind |-> "rel", scheme |-> "", host |-> "", path |-> p]
BadURL == [kind |-> "bad", scheme |-> "", host |-> "", path |-> <<>>]
EmptyString == [kind |-> "empty", scheme |-> "", host |-> "", path |-> <<>>]
Nil == [kind |-> "nil", scheme |-> "", host |-> "", path |-> <<>>]

\* url.Parse: (nil, err) for a string it cannot parse.
Parse(s) == IF s.kind = "bad" THEN Nil ELSE s

\* (*URL).String of a parsed URL.
String(u) == u

DropLast(p) == IF p = <<>> THEN <<>> ELSE SubSeq(p, 1, Len(p) - 1)

\* The dot-segment removal of net/url resolvePath: ".." removes the segment
\* before it, "." is dropped.
RECURSIVE RemoveDots(_, _)
RemoveDots(todo, acc) ==
    IF todo = <<>> THEN acc
    ELSE IF Head(todo) = ".." THEN RemoveDots(Tail(todo), DropLast(acc))
    ELSE IF Head(todo) = "." THEN RemoveDots(Tail(todo), acc)
    ELSE RemoveDots(Tail(todo), Append(acc, Head(todo)))

\* net/url resolvePath(base, ref): an absolute ref path replaces the base
\* path, a relative one replaces the base path's last segment, an empty one
\* leaves the base path.
resolvePath(base, ref) ==
    IF ref.kind = "rel" THEN RemoveDots(DropLast(base) \o ref.path, <<>>)
    ELSE IF ref.kind = "empty" THEN RemoveDots(base, <<>>)
    ELSE RemoveDots(ref.path, <<>>)

\* (*URL).ResolveReference: a reference with a scheme or a host keeps its own
\* authority and path; otherwise host is inherited from the base.
ResolveReference(base, ref) ==
    IF ref.scheme # "" \/ ref.host # ""
    THEN URL(IF ref.scheme = "" THEN base.scheme ELSE ref.scheme, ref.host,
             RemoveDots(ref.path, <<>>))
    ELSE URL(base.scheme, base.host, resolvePath(base.path, ref))

\* resolveURL with its arguments taken in the wrong order.
resolveURLSwapped(current, next) ==
    LET base == Parse(next)
        ref == Parse(current)
    IN  IF base = Nil \/ ref = Nil
        THEN [panic |-> TRUE, url |-> EmptyString]
        ELSE [panic |-> FALSE, url |-> String(ResolveReference(base, ref))]

\* resolveURL(current, next): both parse errors are dropped; a nil base or
\* ref makes ResolveReference dereference nil, i.e. the goroutine panics.
\* The result is [panic, url].
resolveURL(current, next) ==
    LET base == Parse(current)
        ref == Parse(next)
    IN  IF base = Nil \/ ref = Nil
        THEN [panic |-> TRUE, url |-> EmptyString]
        ELSE [panic |-> FALSE, url |-> String(ResolveReference(base, ref))]

\* A pool keyed by the host alone.
KeyHostOnly(scheme, host) == <<"", host>>

\* key := scheme + "://" + host
Key(scheme, host) == <<scheme, host>>

\* ------------------------------------------------------------------------
\* What the peer may put on the wire
\* ------------------------------------------------------------------------
\* A status line, as the fields strings.Split(statusLine, " ") yields.  <<"">>
\* is the empty line of a failed read, <<"HTTP/1.1">> has no second field,
\* "abc" is not a number.
StatusLines ==
    { <<"">>, <<"HTTP/1.1">>, <<"HTTP/1.1", "abc", "OK">>,
      <<"HTTP/1.1", "200", "OK">>, <<"HTTP/1.1", "301", "Moved">>,
      <<"HTTP/1.1", "304", "Not Modified">>, <<"HTTP/1.1", "404", "Not Found">> }

\* strconv.Atoi with its error dropped: 0 for a field that is no number.
Atoi(f) ==
    CASE f = "200" -> 200
      [] f = "301" -> 301
      [] f = "304" -> 304
      [] f = "404" -> 404
      [] OTHER -> 0

\* Location header values: absent, "../b", "https://a/b", and a value
\* url.Parse rejects.
Locations ==
    { EmptyString, RelRef(<<"..", "b">>), URL("https", "a", <<"b">>), BadURL }
ETags == {"", "e1"}
LastMods == {"", "m1"}
Encodings == {"", "gzip"}
ConnectionVals == {"", "Close"}

\* strings.ToLower on the Connection values the peer sends.
ToLower(v) == IF v = "Close" THEN "close" ELSE v
\* strings.Contains(v, sub) on the header values of the model.
Contains(v, sub) == v = sub

\* The header block of a response; "" stands for a header that is not sent.
\* The peer sends Location only with a 3xx status, validators and gzip
\* bodies only with 200, and no validators with a gzip body.
HeaderBlocks ==
    [location : Locations, etag : ETags, lastmodified : LastMods,
     contentencoding : Encodings, connection : ConnectionVals]
NoHeaders ==
    [location |-> EmptyString, etag |-> "", lastmodified |-> "",
     contentencoding |-> "", connection |-> ""]
Responses ==
    { r \in [line : {l \in StatusLines : Len(l) >= 2}, h : HeaderBlocks] :
        LET code == Atoi(r.line[2])
        IN  /\ r.h.location # EmptyString => code \in {301, 304}
            /\ (r.h.etag # "" \/ r.h.lastmodified # "") => code = 200
            /\ r.h.contentencoding # "" =>
                   code = 200 /\ r.h.etag = "" /\ r.h.lastmodified = ""
     }

\* The body the origin serves with a status: the page for a 200, a short
\* notice for the rest.
Payload(statusCode) == IF statusCode = 200 THEN <<1, 2>> ELSE <<3>>

\* A gzip stream: a header, the deflated bytes, a trailer with the checksum.
Sum(p) == IF p = <<>> THEN 0 ELSE IF Len(p) = 1 THEN p[1] ELSE p[1] + p[2]
Gzip(p) ==
    <<[t |-> "magic", b |-> 0]>> \o [i \in 1 .. Len(p) |-> [t |-> "data", b |-> p[i]]]
        \o <<[t |-> "crc", b |-> Sum(p)]>>
\* The stream with its last data byte replaced by garbage.
Corrupt(w) == [w EXCEPT ![Len(w) - 1] = [t |-> "junk", b |-> 0]]
\* The stream cut before its trailer.
Truncate(w) == SubSeq(w, 1, Len(w) - 1)
\* The stream with a wrong header.
BadMagic(w) == [w EXCEPT ![1] = [t |-> "junk", b |-> 0]]

\* gzip.NewReader: nil and an error unless the stream starts with the header.
NewReaderOK(w) == w # <<>> /\ w[1].t = "magic"

\* io.ReadAll over a gzip.Reader: the bytes inflated before the first error,
\* and whether an error ended the read (garbage in the stream, a wrong
\* checksum, or the stream ending before its trailer).
RECURSIVE Inflate(_, _)
Inflate(w, acc) ==
    IF w = <<>> THEN [data |-> acc, err |-> TRUE]
    ELSE IF Head(w).t = "data" THEN Inflate(Tail(w), Append(acc, Head(w).b))
    ELSE IF Head(w).t = "crc"
         THEN [data |-> acc, err |-> Head(w).b # Sum(acc)]
    ELSE [data |-> acc, err |-> TRUE]
GzipReadAll(w) == Inflate(Tail(w), <<>>)

\* ------------------------------------------------------------------------
\* State
\* ------------------------------------------------------------------------
VARIABLES
    httpCache,   \* var httpCache: the map URL -> CacheEntry (a function on its keys)
    connPool,    \* var connPool: [mu: the caller holding the mutex or 0, conns: key -> idle list]
    net,         \* the connections dialled so far: state, origin key, deadline, history
    pc,          \* where each caller is in fetchWithRedirects / makeRequest
    fr,          \* locals of each caller's fetchWithRedirects
    mr,          \* locals of each caller's makeRequest
    result,      \* what each caller's last fetchWithRedirects returned
    log,         \* history: the engine calls of each caller's current fetch (URL, status)
    panicked,    \* a goroutine panicked: the process is gone
    ex,          \* history: each caller's engine call in flight, or its last one
    lastClose,   \* history: per origin, its last response carried Connection: close
    budget       \* engine calls the callers may still make

vars == <<httpCache, connPool, net, pc, fr, mr, result, log, panicked, ex, lastClose,
          budget>>

\* The URLs callers pass to fetchWithRedirects.
StartURLs == { URL("http", "a", <<"x", "y">>), BadURL }
Origins == { Key("http", "a"), Key("https", "a") }

NoConn == [state |-> "unopened", key |-> Key("", ""), deadline |-> FALSE,
           dirty |-> FALSE, sawClose |-> FALSE]
FrInit == [rawURL |-> EmptyString, maxRedirects |-> 0, currentURL |-> EmptyString,
           i |-> 0]
MrInit == [conn |-> 0, list |-> <<>>, hung |-> FALSE,
           ifNoneMatch |-> "", ifModifiedSince |-> "", entryBody |-> <<>>,
           statusCode |-> 0, body |-> <<>>, location |-> EmptyString]
NoExchange == [bodyRead |-> FALSE, readErr |-> FALSE, body |-> <<>>]
NoResult == [kind |-> "none", body |-> <<>>, err |-> ""]
Ok(b) == [kind |-> "ok", body |-> b, err |-> ""]
Err(e) == [kind |-> "err", body |-> <<>>, err |-> e]
Panic == [kind |-> "panic", body |-> <<>>, err |-> ""]

Init ==
    /\ httpCache = <<>>
    /\ connPool = [mu |-> 0, conns |-> [k \in Origins |-> <<>>]]
    /\ net = [k \in ConnIds |-> NoConn]
    /\ pc = [c \in Callers |-> "idle"]
    /\ fr = [c \in Callers |-> FrInit]
    /\ mr = [c \in Callers |-> MrInit]
    /\ result = [c \in Callers |-> NoResult]
    /\ log = [c \in Callers |-> <<>>]
    /\ panicked = FALSE
    /\ ex = [c \in Callers |-> NoExchange]
    /\ lastClose = [k \in Origins |-> FALSE]
    /\ budget = MaxExchanges

\* The key of the pool list a caller's current URL belongs to.
KeyOf(c) == Key(Parse(fr[c].currentURL).scheme, Parse(fr[c].currentURL).host)

\* u.Scheme and u.Host of a caller's current URL: what getConn dials.
OriginOf(c) == <<Parse(fr[c].currentURL).scheme, Parse(fr[c].currentURL).host>>

\* A panic in any goroutine ends the process: no caller takes another step.
DoPanic(c) ==
    /\ panicked' = TRUE
    /\ pc' = [pc EXCEPT ![c] = "done"]
    /\ result' = [result EXCEPT ![c] = Panic]

\* fetchWithRedirects returns r: makeRequest's frame is gone.
Return(c, r) ==
    /\ pc' = [pc EXCEPT ![c] = "done"]
    /\ result' = [result EXCEPT ![c] = r]
    /\ mr' = [mr EXCEPT ![c] = MrInit]
    /\ panicked' = panicked

\* The history entry of the engine call in flight: makeRequest returned the
\* error err.
Failed(c, err) == [log EXCEPT ![c][Len(log[c])].status = -2,
                              ![c][Len(log[c])].err = err]

\* An error of makeRequest turned into an empty successful result.
Swallow(err) == [kind |-> "ok", body |-> <<>>, err |-> ""]

\* if err != nil { return "", err }
Propagate(err) == [kind |-> "err", body |-> <<>>, err |-> err]

\* A cache write that keeps the ETag of the entry it replaces when the new
\* entry has none.
MapMerge(m, k, e) ==
    [x \in (DOMAIN m) \cup {k} |->
        IF x # k THEN m[x]
        ELSE IF k \in DOMAIN m /\ e.ETag = "" THEN [e EXCEPT !.ETag = m[k].ETag]
        ELSE e]

\* httpCache[k] = e on a Go map.
MapPut(m, k, e) == [x \in (DOMAIN m) \cup {k} |-> IF x = k THEN e ELSE m[x]]

\* ------------------------------------------------------------------------
\* fetchWithRedirects: entry and loop head
\* ------------------------------------------------------------------------
\* The history entry of an engine call: its URL, the status it returned (-1
\* while it runs, -2 for an error), the redirect target, the error, the
\* header mapping and the body it returned.
PendingCall(url) ==
    [url |-> url, status |-> -1, location |-> EmptyString, err |-> "",
     h |-> NoHeaders, body |-> <<>>]

\* The history of caller c's fetch once the engine call in flight has read
\* its response.
Answered(c, statusCode, h, body, location) ==
    [log[c] EXCEPT ![Len(log[c])].status = statusCode,
                   ![Len(log[c])].location = location,
                   ![Len(log[c])].h = h,
                   ![Len(log[c])].body = body]

\* A loop that stops one iteration early.
LoopCondStrict(i, maxRedirects) == i < maxRedirects

\* The loop condition i <= maxRedirects.
LoopCond(i, maxRedirects) == i <= maxRedirects

\* for i := 0; i <= maxRedirects; i++ { makeRequest(currentURL, headers) ... }
\* with the frame f, the engine calls made so far and the history e of the
\* last one, and the return after the loop.  makeRequest starts with
\* url.Parse, whose error is dropped: u.Host on a nil u panics.
Iterate(c, f, calls, e) ==
    IF LoopCond(f.i, f.maxRedirects)
    THEN /\ fr' = [fr EXCEPT ![c] = f]
         /\ log' = [log EXCEPT ![c] = Append(calls, PendingCall(f.currentURL))]
         /\ ex' = [ex EXCEPT ![c] = NoExchange]
         /\ mr' = [mr EXCEPT ![c] = MrInit]
         /\ IF Parse(f.currentURL) = Nil
            THEN DoPanic(c)
            ELSE /\ pc' = [pc EXCEPT ![c] = "getConn"]
                 /\ result' = [result EXCEPT ![c] = NoResult]
                 /\ UNCHANGED panicked
    ELSE /\ Return(c, Err("TooManyRedirects"))
         /\ fr' = [fr EXCEPT ![c] = f]
         /\ log' = [log EXCEPT ![c] = calls]
         /\ ex' = [ex EXCEPT ![c] = e]

\* A loop that takes every redirect to have a target.
AnyTarget(location) == FALSE

\* if location == ""
NoTarget(location) == location = EmptyString

\* A 304 answered with the (empty) body the engine returned.
EngineBody(rawURL) == <<>>

\* cached := httpCache[currentURL]; return cached.Body, nil
CachedBody(rawURL) == httpCache[rawURL].Body

\* makeRequest returned (statusCode, headers, body, location, nil) and the
\* loop body goes on.  304: httpCache[currentURL].Body, a nil dereference
\* when there is no entry; a status outside 300..399: the body; no Location:
\* an error; otherwise nextURL, _ := resolveURL(currentURL, location) and
\* the next iteration.
Evaluate(c, calls, statusCode, body, location, e) ==
    LET currentURL == fr[c].currentURL
        next == resolveURL(currentURL, location)
        Returns(r) == /\ Return(c, r)
                      /\ UNCHANGED fr
                      /\ log' = [log EXCEPT ![c] = calls]
                      /\ ex' = [ex EXCEPT ![c] = e]
        Panics == /\ DoPanic(c)
                  /\ log' = [log EXCEPT ![c] = calls]
                  /\ ex' = [ex EXCEPT ![c] = e]
                  /\ mr' = [mr EXCEPT ![c] = MrInit]
                  /\ UNCHANGED fr
    IN  IF statusCode = 304
        THEN IF currentURL \in DOMAIN httpCache
             THEN Returns(Ok(CachedBody(currentURL)))
             ELSE Panics
        ELSE IF statusCode < 300 \/ statusCode > 399 THEN Returns(Ok(body))
        ELSE IF NoTarget(location) THEN Returns(Err("MissingLocation"))
        ELSE IF next.panic THEN Panics
        ELSE Iterate(c, [fr[c] EXCEPT !.currentURL = next.url, !.i = @ + 1], calls, e)

\* A caller calls fetchWithRedirects(rawURL, maxRedirects, headers).
fetchWithRedirects(c) ==
    /\ ~panicked
    /\ pc[c] \in {"idle", "done"}
    /\ \E rawURL \in StartURLs, maxRedirects \in 0 .. MaxRedirectsBound :
          /\ maxRedirects + 1 <= budget
          /\ budget' = budget - (maxRedirects + 1)
          /\ Iterate(c, [rawURL |-> rawURL, maxRedirects |-> maxRedirects,
                          currentURL |-> rawURL, i |-> 0], <<>>, NoExchange)
    /\ UNCHANGED <<httpCache, connPool, net, lastClose>>

\* ------------------------------------------------------------------------
\* getConn
\* ------------------------------------------------------------------------
\* A pool without its mutex.
NoLock(c) == TRUE

\* connPool.Lock() returns when no other caller holds the mutex.
CanLock(c) == connPool.mu = 0

\* connPool.Lock(); list := connPool.conns[key]
getConnLock(c) ==
    /\ ~panicked
    /\ pc[c] = "getConn"
    /\ CanLock(c)
    /\ connPool' = [connPool EXCEPT !.mu = c]
    /\ mr' = [mr EXCEPT ![c].list = connPool.conns[KeyOf(c)]]
    /\ pc' = [pc EXCEPT ![c] = "getConnLocked"]
    /\ UNCHANGED <<httpCache, net, fr, result, log, panicked, ex, lastClose, budget>>

\* A getConn that returns without connPool.Unlock().
StillLocked(c) == c

\* connPool.Unlock(): the mutex is free.
Unlock(c) == 0

\* A getConn that takes every idle list to be empty.
NeverIdle(list) == FALSE

\* if len(list) > 0
HasIdle(list) == Len(list) > 0

\* The idle list getConn stores back after taking list[len(list)-1].
PopList(list) == SubSeq(list, 1, Len(list) - 1)

\* A pool that hands out the connection idle for the longest time.
Oldest(list) == list[1]

\* pc := list[len(list)-1]
Taken(list) == list[Len(list)]

\* if len(list) > 0 { pc := list[len(list)-1]; conns[key] = list[:len(list)-1];
\* Unlock() ... } else { Unlock(); dial }
getConnPop(c) ==
    /\ ~panicked
    /\ pc[c] = "getConnLocked"
    /\ IF HasIdle(mr[c].list)
       THEN /\ connPool' = [mu |-> Unlock(c),
                            conns |-> [connPool.conns EXCEPT ![KeyOf(c)] = PopList(mr[c].list)]]
            /\ mr' = [mr EXCEPT ![c].conn = Taken(mr[c].list),
                                ![c].list = <<>>]
            /\ pc' = [pc EXCEPT ![c] = "setDeadline"]
       ELSE /\ connPool' = [connPool EXCEPT !.mu = Unlock(c)]
            /\ mr' = [mr EXCEPT ![c].list = <<>>]
            /\ pc' = [pc EXCEPT ![c] = "dial"]
    /\ UNCHANGED <<httpCache, net, fr, result, log, panicked, ex, lastClose, budget>>

\* pc.conn.SetDeadline(time.Now().Add(15 * time.Second)); return pc.conn, nil
getConnSetDeadline(c) ==
    /\ ~panicked
    /\ pc[c] = "setDeadline"
    /\ net' = [net EXCEPT ![mr[c].conn].deadline = TRUE]
    /\ pc' = [pc EXCEPT ![c] = "write"]
    /\ UNCHANGED <<httpCache, connPool, fr, mr, result, log, panicked, ex, lastClose, budget>>

\* The connection a successful dial returns: open, to the scheme and host
\* given (in the field key), and with no read/write deadline set on it.
Dialled(key) ==
    [state |-> "open", key |-> key, deadline |-> FALSE, dirty |-> FALSE,
     sawClose |-> FALSE]

\* tls.DialWithDialer / dialer.Dial with the 10 s connect timeout: a new
\* connection, or an error that makeRequest and fetchWithRedirects return.
getConnDial(c) ==
    /\ ~panicked
    /\ pc[c] = "dial"
    /\ \/ /\ \E k \in ConnIds :
                /\ net[k].state = "unopened"
                /\ \A j \in ConnIds : j < k => net[j].state # "unopened"
                /\ net' = [net EXCEPT ![k] = Dialled(OriginOf(c))]
                /\ mr' = [mr EXCEPT ![c].conn = k]
          /\ pc' = [pc EXCEPT ![c] = "write"]
          /\ UNCHANGED <<result, log, panicked, fr>>
       \/ /\ Return(c, Propagate("ConnectError"))
          /\ log' = Failed(c, "ConnectError")
          /\ UNCHANGED <<net, fr>>
    /\ UNCHANGED <<httpCache, connPool, ex, lastClose, budget>>

\* ------------------------------------------------------------------------
\* makeRequest
\* ------------------------------------------------------------------------
\* if c, ok := httpCache[rawURL]; ok { If-None-Match / If-Modified-Since }:
\* the validators the request carries ("" for a header that is not written).
\* A request that never carries a validator.
NoValidator(rawURL) == ""

IfNoneMatch(rawURL) ==
    IF rawURL \in DOMAIN httpCache THEN httpCache[rawURL].ETag ELSE ""
IfModifiedSince(rawURL) ==
    IF rawURL \in DOMAIN httpCache THEN httpCache[rawURL].LastModified ELSE ""

\* The body of the entry c whose validators the request carries (history).
EntryBody(rawURL) ==
    IF rawURL \in DOMAIN httpCache THEN httpCache[rawURL].Body ELSE <<>>

\* The request is built (with the validators of the cache entry) and written
\* with conn.Write(req): on an error the connection is closed and the error
\* returned.  After a successful write the peer either answers or stays
\* silent for good (hung).
makeRequestWrite(c) ==
    /\ ~panicked
    /\ pc[c] = "write"
    /\ \/ /\ \E hung \in BOOLEAN :
                mr' = [mr EXCEPT ![c].hung = hung,
                                 ![c].ifNoneMatch = IfNoneMatch(fr[c].currentURL),
                                 ![c].ifModifiedSince = IfModifiedSince(fr[c].currentURL),
                                 ![c].entryBody = EntryBody(fr[c].currentURL)]
          /\ pc' = [pc EXCEPT ![c] = "read"]
          /\ UNCHANGED <<net, fr, result, log, panicked>>
       \/ /\ net' = [net EXCEPT ![mr[c].conn].state = "closed",
                                ![mr[c].conn].dirty = TRUE]
          /\ Return(c, Propagate("WriteError"))
          /\ log' = Failed(c, "WriteError")
          /\ UNCHANGED fr
    /\ UNCHANGED <<httpCache, connPool, ex, lastClose, budget>>

\* What can go wrong while the header lines are read: nothing, the stream
\* ending before the blank line, a line without a colon.
HeaderFaults == {"none", "eof", "nocolon"}

\* A comparison of the Connection value that minds the letter case.
KeepAliveExact(h) == ~Contains(h.connection, "close")

\* keepAlive after the header loop.
KeepAlive(h) == ~Contains(ToLower(h.connection), "close")
\* isGzip after the header loop.
IsGzip(h) == Contains(h.contentencoding, "gzip")

\* A read on the caller's connection returns: the peer sent something, or
\* the connection's deadline expired.  Without a deadline a read from a
\* silent peer never returns.
ReadReturns(c) == ~mr[c].hung \/ net[mr[c].conn].deadline

\* How the body arrives: whole, cut short by a failing connection, with
\* garbage in the gzip stream, or with a broken gzip header.  Faults are
\* modelled on the body of a 200.
BodyFaultsOf(statusCode, isGzip) ==
    IF statusCode # 200 THEN {"none"}
    ELSE IF isGzip THEN {"none", "short", "garbage", "badmagic"}
    ELSE {"none", "short"}
\* How the read ends: the peer closes (io.EOF), the connection fails, or the
\* peer keeps the connection open and the deadline expires.
ReadEndsOf(fault, deadline) ==
    (IF fault = "short" THEN {"error"} ELSE {"eof", "error"})
        \cup (IF deadline THEN {"timeout"} ELSE {})

\* io.ReadAll(bodyReader) with its error dropped: [data, err, panic].  A
\* failed gzip.NewReader leaves gz nil, and reading through it panics.
ReadAll(payload, fault, end, isGzip) ==
    IF isGzip
    THEN LET w == CASE fault = "short" -> Truncate(Gzip(payload))
                    [] fault = "garbage" -> Corrupt(Gzip(payload))
                    [] fault = "badmagic" -> BadMagic(Gzip(payload))
                    [] OTHER -> Gzip(payload)
         IN  IF ~NewReaderOK(w)
             THEN [data |-> <<>>, err |-> TRUE, panic |-> TRUE]
             ELSE [data |-> GzipReadAll(w).data,
                   err |-> GzipReadAll(w).err \/ end # "eof", panic |-> FALSE]
    ELSE [data |-> IF fault = "short" THEN DropLast(payload) ELSE payload,
          err |-> end # "eof", panic |-> FALSE]

\* The entry makeRequest stores.
CacheEntry(body, etag, lastModified, headers) ==
    [Body |-> body, ETag |-> etag, LastModified |-> lastModified, Headers |-> headers]

\* if keepAlive { releaseConn(u.Host, u.Scheme, conn) } else { conn.Close() }
\* and return statusCode, headers, body, location, nil: a connection to be
\* closed is closed here and the loop of fetchWithRedirects goes on, one to
\* be kept goes on to releaseConn.
Dispose(c, keepAlive, calls, statusCode, body, location, e) ==
    IF keepAlive
    THEN /\ mr' = [mr EXCEPT ![c].statusCode = statusCode, ![c].body = body,
                             ![c].location = location]
         /\ pc' = [pc EXCEPT ![c] = "releaseConn"]
         /\ ex' = [ex EXCEPT ![c] = e]
         /\ log' = [log EXCEPT ![c] = calls]
         /\ UNCHANGED <<fr, result, panicked>>
    ELSE Evaluate(c, calls, statusCode, body, location, e)

\* The response is read from the connection: status line, header block and,
\* unless the status is 304, the body, which is stored in the cache.
\* reader.ReadString errors are dropped, parts[1] is indexed without a length
\* check and line[:colon] without a check of colon, so a short status line,
\* a failed read and a line without a colon panic; an unparsable code
\* becomes status 0.  io.ReadAll ends only when the peer closes, the
\* connection fails or the deadline expires, and its error is dropped.
makeRequestRead(c) ==
    /\ ~panicked
    /\ pc[c] = "read"
    /\ ReadReturns(c)
    /\ LET conn == mr[c].conn
           Panics == /\ DoPanic(c)
                     /\ net' = [net EXCEPT ![conn].dirty = TRUE]
                     /\ UNCHANGED <<httpCache, fr, mr, log, ex, lastClose>>
       IN  \/ /\ \/ mr[c].hung
                 \/ \E line \in StatusLines : Len(line) < 2
                 \/ \E hfault \in HeaderFaults : hfault # "none"
              /\ Panics
           \/ /\ ~mr[c].hung
              /\ \E r \in Responses :
                   LET statusCode == Atoi(r.line[2])
                       keepAlive == KeepAlive(r.h)
                       isGzip == IsGzip(r.h)
                       sawClose == Contains(ToLower(r.h.connection), "close")
                       state == IF keepAlive THEN "open" ELSE "closed"
                   IN  IF statusCode = 304
                       THEN /\ net' = [net EXCEPT ![conn].sawClose = sawClose,
                                                  ![conn].state = state]
                            /\ Dispose(c, keepAlive,
                                       Answered(c, statusCode, r.h, <<>>, EmptyString),
                                       statusCode, <<>>, EmptyString, ex[c])
                            /\ lastClose' = [lastClose EXCEPT ![KeyOf(c)] = sawClose]
                            /\ UNCHANGED httpCache
                       ELSE \E fault \in BodyFaultsOf(statusCode, isGzip) :
                            \E end \in ReadEndsOf(fault, net[conn].deadline) :
                               LET b == ReadAll(Payload(statusCode), fault, end, isGzip)
                               IN  IF b.panic
                                   THEN Panics
                                   ELSE /\ httpCache' =
                                              MapPut(httpCache, fr[c].currentURL,
                                                     CacheEntry(b.data, r.h.etag,
                                                                r.h.lastmodified, r.h))
                                        /\ net' = [net EXCEPT ![conn].sawClose = sawClose,
                                                              ![conn].dirty = TRUE,
                                                              ![conn].state = state]
                                        /\ lastClose' =
                                              [lastClose EXCEPT ![KeyOf(c)] = sawClose]
                                        /\ Dispose(c, keepAlive,
                                                   Answered(c, statusCode, r.h, b.data,
                                                            r.h.location),
                                                   statusCode, b.data, r.h.location,
                                                   [bodyRead |-> TRUE, readErr |-> b.err,
                                                    body |-> b.data])
    /\ UNCHANGED <<connPool, budget>>

\* ------------------------------------------------------------------------
\* releaseConn
\* ------------------------------------------------------------------------
\* connPool.Lock(); connPool.conns[key] = append(connPool.conns[key],
\* &pooledConn{conn}); connPool.Unlock(); then makeRequest returns and the
\* loop of fetchWithRedirects goes on.
releaseConn(c) ==
    /\ ~panicked
    /\ pc[c] = "releaseConn"
    /\ CanLock(c)
    /\ connPool' = [connPool EXCEPT !.conns[KeyOf(c)] = Append(@, mr[c].conn)]
    /\ Evaluate(c, log[c], mr[c].statusCode, mr[c].body, mr[c].location, ex[c])
    /\ UNCHANGED <<httpCache, net, lastClose, budget>>

Next ==
    \E c \in Callers :
        \/ fetchWithRedirects(c)
        \/ getConnLock(c)
        \/ getConnPop(c)
        \/ getConnSetDeadline(c)
        \/ getConnDial(c)
        \/ makeRequestWrite(c)
        \/ makeRequestRead(c)
        \/ releaseConn(c)

Spec == Init /\ [][Next]_vars

\* ------------------------------------------------------------------------
\* Vocabulary of the properties
\* ------------------------------------------------------------------------
\* An engine call that answered with a redirect: a 3xx status and a target
\* that is a URL reference.
IsRedirect(e) == e.status \in 300 .. 399 /\ e.location.kind \in {"abs", "rel"}

\* The last engine call of caller c's fetch.
LastCall(c) == log[c][Len(log[c])]

\* RFC 3986, 5.2: the path a relative path leads to from a directory.
RECURSIVE Walk(_, _)
Walk(dir, rel) ==
    IF rel = <<>> THEN dir
    ELSE IF Head(rel) = ".." THEN Walk(DropLast(dir), Tail(rel))
    ELSE IF Head(rel) = "." THEN Walk(dir, Tail(rel))
    ELSE Walk(Append(dir, Head(rel)), Tail(rel))

\* RFC 3986, 5.2: the URL a redirect target stands for at the URL u.
TargetOf(u, l) ==
    IF l.kind = "abs" THEN l
    ELSE URL(u.scheme, u.host, Walk(DropLast(u.path), l.path))

\* The connections in the pool's idle lists.
Idle == { connPool.conns[o][j] : <<o, j>> \in
            { x \in Origins \X ConnIds : x[2] <= Len(connPool.conns[x[1]]) } }

\* ------------------------------------------------------------------------
\* C1
\* ------------------------------------------------------------------------
\* C1: a fetch never makes more than maxRedirects + 1 engine calls; a fetch
\* whose engine calls all answered with a redirect (3xx with a target that
\* is a URL reference) ends with TooManyRedirects after exactly
\* maxRedirects + 1 calls, and TooManyRedirects is returned only then.
C1_TooManyRedirects ==
    \A c \in Callers :
        LET allRedirects == \A j \in 1 .. Len(log[c]) : IsRedirect(log[c][j])
        IN  /\ Len(log[c]) <= fr[c].maxRedirects + 1
            /\ (pc[c] = "done" /\ log[c] # <<>> /\ allRedirects)
                   => /\ result[c] = Err("TooManyRedirects")
                      /\ Len(log[c]) = fr[c].maxRedirects + 1
            /\ result[c] = Err("TooManyRedirects")
                   => allRedirects /\ Len(log[c]) = fr[c].maxRedirects + 1

\* C1 witness: maxRedirects = 2, three engine calls, the last two to the
\* same URL (a cycle), and TooManyRedirects.
C1_Witness ==
    \E c \in Callers :
        /\ pc[c] = "done"
        /\ result[c] = Err("TooManyRedirects")
        /\ fr[c].maxRedirects = 2
        /\ Len(log[c]) = 3
        /\ log[c][2].url = log[c][3].url
        /\ \A j \in 1 .. 3 : IsRedirect(log[c][j])

\* ------------------------------------------------------------------------
\* C2
\* ------------------------------------------------------------------------
\* C2: a fetch that got k redirects and then a status outside 300..399
\* returns the body the engine returned for that last response, k is at most
\* maxRedirects and is the hop reached, the first call goes to the start URL
\* and the call at hop j+1 goes to the URL that hop j's target stands for at
\* hop j's URL.
C2_RedirectsThenFinal ==
    \A c \in Callers :
        (/\ pc[c] = "done"
         /\ log[c] # <<>>
         /\ \A j \in 1 .. Len(log[c]) - 1 : IsRedirect(log[c][j])
         /\ LastCall(c).status >= 0
         /\ LastCall(c).status \notin 300 .. 399)
            => /\ result[c] = Ok(ex[c].body)
               /\ fr[c].i = Len(log[c]) - 1
               /\ fr[c].i <= fr[c].maxRedirects
               /\ log[c][1].url = fr[c].rawURL
               /\ \A j \in 1 .. Len(log[c]) - 1 :
                      log[c][j + 1].url = TargetOf(log[c][j].url, log[c][j].location)

\* C2 witness: a 301 with the relative target ../b, then a 200 whose body is
\* returned: two engine calls, hop 1, the second call to http://a/b.
C2_Witness ==
    \E c \in Callers :
        /\ pc[c] = "done"
        /\ Len(log[c]) = 2
        /\ log[c][1].status = 301
        /\ log[c][1].location = RelRef(<<"..", "b">>)
        /\ log[c][2].url = URL("http", "a", <<"b">>)
        /\ log[c][2].status = 200
        /\ fr[c].i = 1
        /\ result[c] = Ok(Payload(200))

\* ------------------------------------------------------------------------
\* C3
\* ------------------------------------------------------------------------
\* Caller c's step in which its engine call receives a 304 (the read), and
\* the step in which that call, its connection kept, returns (the release).
Read304(c) ==
    /\ pc[c] = "read"
    /\ \/ pc'[c] = "releaseConn" /\ mr'[c].statusCode = 304
       \/ pc'[c] = "done" /\ log'[c][Len(log'[c])].status = 304
Release304(c) == pc[c] = "releaseConn" /\ mr[c].statusCode = 304 /\ pc'[c] = "done"

\* C3: a step of an exchange that receives 304 for a URL with a cache entry
\* leaves the whole cache as it is and reads no body, and the fetch returns
\* exactly the body stored in the entry.
C3_NotModified ==
    [][\A c \in Callers :
          ((Read304(c) \/ Release304(c)) /\ fr[c].currentURL \in DOMAIN httpCache)
             => /\ httpCache' = httpCache
                /\ ~ex'[c].bodyRead
                /\ ex'[c].body = <<>>
                /\ pc'[c] = "done"
                      => result'[c] = Ok(httpCache[fr[c].currentURL].Body)]_vars

\* C3 witness: a fetch that ended with a 304 and returned the page stored
\* by an earlier exchange, with no body read.
C3_Witness ==
    \E c \in Callers :
        /\ pc[c] = "done"
        /\ log[c] # <<>>
        /\ LastCall(c).status = 304
        /\ ~ex[c].bodyRead
        /\ LastCall(c).url \in DOMAIN httpCache
        /\ result[c] = Ok(Payload(200))

\* ------------------------------------------------------------------------
\* C4
\* ------------------------------------------------------------------------
\* C4: a fetch that returns successfully the body read in its last exchange
\* returns the complete body of the response, never a part of it.
C4_NoPartialBody ==
    \A c \in Callers :
        (pc[c] = "done" /\ result[c].kind = "ok" /\ ex[c].bodyRead)
            => result[c].body = Payload(LastCall(c).status)

\* ------------------------------------------------------------------------
\* C5
\* ------------------------------------------------------------------------
\* C5: every connection in an idle list is open, has seen no read or write
\* error, end of stream or timeout, and no Connection: close.
C5_PoolOnlyClean ==
    \A k \in Idle :
        net[k].state = "open" /\ ~net[k].dirty /\ ~net[k].sawClose

\* ------------------------------------------------------------------------
\* C6
\* ------------------------------------------------------------------------
\* No caller but c has ever called fetchWithRedirects: sequential use.
Alone(c) == \A d \in Callers \ {c} : pc[d] = "idle"

\* C6: a connection on which a response with a Connection header containing
\* "close" (in any letter case) arrived is closed and in no idle list; and a
\* sequential caller whose origin's last response carried such a header
\* finds the origin's idle list empty in getConn, so that it dials.
C6_CloseDiscards ==
    /\ \A k \in ConnIds :
           net[k].sawClose => net[k].state = "closed" /\ k \notin Idle
    /\ \A c \in Callers :
           (Alone(c) /\ pc[c] \in {"getConnLocked", "setDeadline"} /\ lastClose[KeyOf(c)])
               => pc[c] = "getConnLocked" /\ mr[c].list = <<>>

\* C6 witness: a sequential caller about to dial for an origin whose last
\* response said Connection: Close on a connection that is now closed.
C6_Witness ==
    \E c \in Callers :
        /\ Alone(c)
        /\ pc[c] = "dial"
        /\ lastClose[KeyOf(c)]
        /\ \E k \in ConnIds :
              net[k].sawClose /\ net[k].key = KeyOf(c) /\ net[k].state = "closed"

\* ------------------------------------------------------------------------
\* C7
\* ------------------------------------------------------------------------
\* C7: a read that ends an exchange without Connection: close goes on to
\* release the connection; the release appends it to the idle list of the
\* connection's origin; and getConn, when the origin's idle list is not
\* empty, dials nothing and takes the last connection of the list, that is
\* the one released most recently, out of it.
C7_ReleaseThenLifo ==
    [][\A c \in Callers :
          /\ (pc[c] = "read" /\ pc'[c] # "read" /\ ~panicked'
                  /\ ~net'[mr[c].conn].sawClose)
               => pc'[c] = "releaseConn" /\ mr'[c].conn = mr[c].conn
          /\ (pc[c] = "releaseConn" /\ pc'[c] # "releaseConn")
               => connPool'.conns =
                     [connPool.conns EXCEPT ![net[mr[c].conn].key] = Append(@, mr[c].conn)]
          /\ (pc[c] = "getConnLocked" /\ pc'[c] # "getConnLocked"
                  /\ connPool.conns[KeyOf(c)] # <<>>)
               => LET list == connPool.conns[KeyOf(c)]
                  IN  /\ pc'[c] = "setDeadline"
                      /\ mr'[c].conn = list[Len(list)]
                      /\ connPool'.conns =
                            [connPool.conns EXCEPT
                                ![KeyOf(c)] = SubSeq(list, 1, Len(list) - 1)]
                      /\ net' = net]_vars

\* C7 witness: a caller that took a connection from an idle list of two,
\* the other one still idle.
C7_Witness ==
    \E c \in Callers :
        /\ pc[c] = "setDeadline"
        /\ Len(connPool.conns[KeyOf(c)]) = 1
        /\ net[mr[c].conn].key = KeyOf(c)

\* ------------------------------------------------------------------------
\* C8
\* ------------------------------------------------------------------------
\* C8: a caller that waits for the answer of a peer that stays silent does
\* so on a connection with a deadline, so that its read returns.
C8_ExchangeUnderDeadline ==
    \A c \in Callers :
        (pc[c] = "read" /\ mr[c].hung)
            => net[mr[c].conn].deadline /\ ReadReturns(c)

\* ------------------------------------------------------------------------
\* C9
\* ------------------------------------------------------------------------
\* Caller c has a connection checked out.
CheckedOut(c) == pc[c] \in {"setDeadline", "write", "read", "releaseConn"}

\* C9: no connection is checked out by two callers, none is checked out and
\* idle, and none is twice in the idle lists.
C9_NoSharedConnection ==
    /\ \A c \in Callers :
           CheckedOut(c)
               => /\ mr[c].conn \notin Idle
                  /\ \A d \in Callers \ {c} : CheckedOut(d) => mr[d].conn # mr[c].conn
    /\ \A o1, o2 \in Origins :
       \A j1 \in 1 .. Len(connPool.conns[o1]), j2 \in 1 .. Len(connPool.conns[o2]) :
           connPool.conns[o1][j1] = connPool.conns[o2][j2] => o1 = o2 /\ j1 = j2

\* C9 witness: two callers in an exchange with the same origin at the same
\* time, each on its own connection.
C9_Witness ==
    \E c, d \in Callers :
        /\ c # d
        /\ pc[c] = "read" /\ pc[d] = "read"
        /\ KeyOf(c) = KeyOf(d)
        /\ mr[c].conn # mr[d].conn

\* ------------------------------------------------------------------------
\* C10
\* ------------------------------------------------------------------------
\* C10: no caller writes the cache entry of a URL while another caller is
\* between reading the validators of that URL's entry and writing the entry
\* itself.
C10_CacheSequencesExclusive ==
    [][\A c, d \in Callers :
          (c # d /\ pc[c] = "read" /\ pc'[c] # "read" /\ httpCache' # httpCache)
             => ~(pc[d] = "read" /\ fr[d].currentURL = fr[c].currentURL)]_vars

\* ------------------------------------------------------------------------
\* C11
\* ------------------------------------------------------------------------
\* The bodies the origin serves, whole.
WholeBodies == { Payload(Atoi(l[2])) : l \in { x \in StatusLines : Len(x) >= 2 } }

\* C11: every cache entry holds a body that was read in full: an exchange
\* whose body read failed part-way has not created or changed an entry.
C11_EntriesFromCompleteExchanges ==
    \A u \in DOMAIN httpCache : httpCache[u].Body \in WholeBodies

\* ------------------------------------------------------------------------
\* C12
\* ------------------------------------------------------------------------
\* C12: a fetch whose engine call received 304 for a URL without a cache
\* entry ends with the error CacheInconsistency, and not with a crash.
C12_CacheInconsistency ==
    \A c \in Callers :
        (/\ pc[c] = "done"
         /\ log[c] # <<>>
         /\ LastCall(c).status = 304
         /\ LastCall(c).url \notin DOMAIN httpCache)
            => result[c] = Err("CacheInconsistency")

\* ------------------------------------------------------------------------
\* C13
\* ------------------------------------------------------------------------
\* C13: a fetch whose last engine call read a status line without a
\* parsable code (reported as status 0) ends with the error
\* MalformedStatusLine, with no body as its result and no cache entry
\* written for the URL.
C13_MalformedStatusLine ==
    \A c \in Callers :
        (pc[c] = "done" /\ log[c] # <<>> /\ LastCall(c).status = 0)
            => /\ result[c] = Err("MalformedStatusLine")
               /\ LastCall(c).url \notin DOMAIN httpCache

\* ------------------------------------------------------------------------
\* C14
\* ------------------------------------------------------------------------
\* C14: an engine call that returned an error is the last call of its
\* fetch, and the fetch is over with that same error and an empty body.
C14_EngineErrorStops ==
    \A c \in Callers :
    \A j \in 1 .. Len(log[c]) :
        log[c][j].status = -2
            => /\ j = Len(log[c])
               /\ pc[c] = "done"
               /\ result[c].kind = "err"
               /\ result[c].err = log[c][j].err
               /\ result[c].body = <<>>

\* C14 witness: a fetch whose engine call at hop 1 failed, after one
\* redirect, and that returned the error.
C14_Witness ==
    \E c \in Callers :
        /\ pc[c] = "done"
        /\ Len(log[c]) = 2
        /\ log[c][2].status = -2
        /\ log[c][2].err = "WriteError"
        /\ result[c] = Err("WriteError")

\* ------------------------------------------------------------------------
\* C15
\* ------------------------------------------------------------------------
\* C15: an engine call that returned a status in 300..399 other than 304
\* with an empty target is the last call of its fetch, and once the call
\* has returned the fetch is over with the missing-Location error.
C15_MissingLocation ==
    \A c \in Callers :
    \A j \in 1 .. Len(log[c]) :
        (/\ log[c][j].status \in 300 .. 399
         /\ log[c][j].status # 304
         /\ log[c][j].location = EmptyString)
            => /\ j = Len(log[c])
               /\ pc[c] \in {"releaseConn", "done"}
               /\ pc[c] = "done" => result[c] = Err("MissingLocation")

\* C15 witness: a redirect without a target at hop 1, after one redirect
\* with a target.
C15_Witness ==
    \E c \in Callers :
        /\ pc[c] = "done"
        /\ Len(log[c]) = 2
        /\ IsRedirect(log[c][1])
        /\ log[c][2].status = 301
        /\ log[c][2].location = EmptyString
        /\ result[c] = Err("MissingLocation")

\* ------------------------------------------------------------------------
\* C16
\* ------------------------------------------------------------------------
\* C16: a fetch that ended at a start URL that cannot be parsed, or at a
\* redirect whose target cannot be parsed, ended with the error
\* MalformedURL.
C16_MalformedURL ==
    \A c \in Callers :
        (/\ pc[c] = "done"
         /\ log[c] # <<>>
         /\ \/ LastCall(c).url.kind = "bad"
            \/ LastCall(c).status \in 300 .. 399 /\ LastCall(c).location.kind = "bad")
            => result[c] = Err("MalformedURL")

\* ------------------------------------------------------------------------
\* C17
\* ------------------------------------------------------------------------
\* C17: the request a caller writes for a URL carries If-None-Match exactly
\* when the cache has an entry for that very URL with a non-empty ETag, and
\* then with that ETag as its value, and If-Modified-Since exactly when the
\* entry has a non-empty Last-Modified, with that value; with no entry for
\* the URL it carries neither.
C17_Validators ==
    [][\A c \in Callers :
          (pc[c] = "write" /\ pc'[c] = "read")
             => LET u == fr[c].currentURL
                    has == u \in DOMAIN httpCache
                IN  /\ mr'[c].ifNoneMatch # "" <=> (has /\ httpCache[u].ETag # "")
                    /\ mr'[c].ifNoneMatch # "" => mr'[c].ifNoneMatch = httpCache[u].ETag
                    /\ mr'[c].ifModifiedSince # ""
                          <=> (has /\ httpCache[u].LastModified # "")
                    /\ mr'[c].ifModifiedSince # ""
                          => mr'[c].ifModifiedSince = httpCache[u].LastModified]_vars

\* C17 witness: a request that carries both validators of its URL's entry.
C17_Witness ==
    \E c \in Callers :
        /\ pc[c] = "read"
        /\ mr[c].ifNoneMatch = "e1"
        /\ mr[c].ifModifiedSince = "m1"

\* ------------------------------------------------------------------------
\* C18
\* ------------------------------------------------------------------------
\* C18: the pool's mutex is held only by a caller that is between reading
\* and changing an idle list; no caller holds it while it dials, sets a
\* deadline, writes or reads, so the mutex is free whenever no caller is
\* inside a list operation.
C18_LockOnlyForListOps ==
    /\ connPool.mu # 0 => pc[connPool.mu] = "getConnLocked"
    /\ \A c \in Callers :
           pc[c] \in {"dial", "setDeadline", "write", "read"} => connPool.mu # c

\* C18 witness: a caller blocked for good in the read of an exchange with a
\* silent peer, while the other caller holds the mutex in its acquire.
C18_Witness ==
    \E c, d \in Callers :
        /\ pc[c] = "read" /\ mr[c].hung /\ ~ReadReturns(c)
        /\ pc[d] = "getConnLocked"
        /\ connPool.mu = d

\* ------------------------------------------------------------------------
\* C19
\* ------------------------------------------------------------------------
\* C19: the step in which a caller's engine call reads a non-304 response
\* in full leaves the cache with exactly that response's body, ETag,
\* Last-Modified and header mapping as the entry of the call's URL,
\* whatever the status and whatever the entry was before, and with the
\* entries of all other URLs as they were.
C19_EntryReplaced ==
    [][\A c \in Callers :
          (pc[c] = "read" /\ pc'[c] # "read" /\ ~panicked')
             => LET u == fr[c].currentURL
                    a == log'[c][Len(log[c])]
                IN  (a.status # 304 /\ a.body = Payload(a.status))
                       => /\ DOMAIN httpCache' = DOMAIN httpCache \cup {u}
                          /\ httpCache'[u] =
                                [Body |-> a.body, ETag |-> a.h.etag,
                                 LastModified |-> a.h.lastmodified, Headers |-> a.h]
                          /\ \A v \in DOMAIN httpCache \ {u} :
                                httpCache'[v] = httpCache[v]]_vars

\* C19 witness: the entry of a URL, stored with both validators, has been
\* replaced by a response without them: none of its fields survives.
C19_Witness ==
    \E c \in Callers :
        /\ pc[c] \in {"releaseConn", "done"}
        /\ log[c] # <<>>
        /\ LastCall(c).status = 404
        /\ LastCall(c).url \in DOMAIN httpCache
        /\ httpCache[LastCall(c).url] =
              [Body |-> Payload(404), ETag |-> "", LastModified |-> "",
               Headers |-> LastCall(c).h]
        /\ \E d \in Callers :
              /\ d # c
              /\ pc[d] = "done"
              /\ LastCall(d).url = LastCall(c).url
              /\ LastCall(d).status = 200
              /\ LastCall(d).h.etag = "e1"
              /\ LastCall(d).h.lastmodified = "m1"

\* ------------------------------------------------------------------------
\* C20
\* ------------------------------------------------------------------------
\* C20: every connection in the idle list of an origin was dialled to that
\* origin's scheme and host, and every connection a caller has checked out
\* for a request was dialled to the scheme and host of the request's URL.
C20_OriginIsolation ==
    /\ \A o \in DOMAIN connPool.conns :
       \A j \in 1 .. Len(connPool.conns[o]) :
           net[connPool.conns[o][j]].key = o
    /\ \A c \in Callers :
           CheckedOut(c)
               => net[mr[c].conn].key =
                     <<fr[c].currentURL.scheme, fr[c].currentURL.host>>

\* C20 witness: a caller takes a connection from the pool for its request
\* to https://a while a connection to http://a, same host, is idle.
C20_Witness ==
    \E c \in Callers :
        /\ pc[c] = "setDeadline"
        /\ fr[c].currentURL.scheme = "https"
        /\ net[mr[c].conn].key = <<"https", "a">>
        /\ connPool.conns[<<"http", "a">>] # <<>>

\* ------------------------------------------------------------------------
\* C21
\* ------------------------------------------------------------------------
\* C21: a fetch that sent validators and returns on a 304 returns the body
\* of the entry those validators were taken from, whatever another caller
\* has written to the cache in between.
C21_ValidatedBody ==
    [][\A c \in Callers :
          (/\ Read304(c) \/ Release304(c)
           /\ pc'[c] = "done"
           /\ result'[c].kind = "ok"
           /\ mr[c].ifNoneMatch # "" \/ mr[c].ifModifiedSince # "")
             => result'[c].body = mr[c].entryBody]_vars

\* ------------------------------------------------------------------------
\* C22
\* ------------------------------------------------------------------------
\* N: the number of callers that have called fetchWithRedirects.
Started == { c \in Callers : pc[c] # "idle" }

\* The callers that have a connection checked out, and those that have one
\* checked out for a request to the origin o.
Holders == { c \in Callers : CheckedOut(c) }
HoldersAt(o) == { c \in Holders : OriginOf(c) = o }

\* C22 as stated: for every origin, the idle connections of the origin plus
\* the connections checked out are at most N.
C22_PoolWithinCallers ==
    \A o \in DOMAIN connPool.conns :
        Len(connPool.conns[o]) + Cardinality(Holders) <= Cardinality(Started)

\* C22 amended: for every origin, the idle connections of the origin plus
\* the connections checked out for requests to that origin are at most N
\* (at most 1 for a single sequential caller); the idle connections of
\* different origins are not bounded by N together.
C22_PoolWithinCallersPerOrigin ==
    \A o \in DOMAIN connPool.conns :
        Len(connPool.conns[o]) + Cardinality(HoldersAt(o)) <= Cardinality(Started)

\* C22 witness: one caller only, and the pool holds two connections, one
\* idle for each of two origins.
C22_Witness ==
    /\ Cardinality(Started) = 1
    /\ Len(connPool.conns[<<"http", "a">>]) = 1
    /\ Len(connPool.conns[<<"https", "a">>]) = 1

====
